---- MODULE Spec2Model ----
(***************************************************************************)
(* State-machine model of scripts/create_splits.py: the stratified,        *)
(* deficit-corrected train/dev/test split allocator, and of the two        *)
(* generation scripts scripts/build_complete_dataset.py and                *)
(* scripts/correct_dataset.py (specification SpecGen).                     *)
(*                                                                         *)
(* Generation stage.  The database is an input: the outcome of every SQL   *)
(* text (error, no row, a first value of NULL, rows) and the number of     *)
(* distinct values a table offers.  random.choice is a nondeterministic    *)
(* choice.  The counts of the scripts (80 instances per table, 5000        *)
(* attempts, 10 or 12 templates, 100 rounds) are scaled down.              *)
(*                                                                         *)
(* Numbers.  The script computes g * 0.70 and g * 0.15 in IEEE doubles.    *)
(* The model keeps every such product as an exact integer number of        *)
(* hundredths (ideal_train = g * 70 means g * 0.70).  For pools of fewer   *)
(* than 45 items and strata of at most 10 items the double results of      *)
(* floor(), round() (round-half-even) and the ordering of the fractional   *)
(* remainders coincide with the exact ones, so inside the bounds used      *)
(* here the integer model computes what the script computes.               *)
(***************************************************************************)
EXTENDS Integers, Sequences, FiniteSets, TLC

\* ------------------------------------------------------------------ bounds
MaxGroup == 5   \* largest stratum of a block / round-robin pool
MaxLen == 4     \* longest pool enumerated label by label
MaxBadLen == 3  \* longest pool that may carry missing or empty labels
MaxTrain == 2   \* longest train.json enumerated instance by instance
NumTemplates == 2      \* templates per table (10 or 12 in the scripts)
MaxValues == 2         \* most distinct values the store holds for a column
TARGET_PER_TABLE == 2  \* 80 in the scripts
max_attempts == 3      \* 5000 in generate_and_add
MaxPool == 44           \* largest pool size whose targets are computed alone
MaxDupLen == 3          \* longest pool whose ids may repeat
MaxRounds == 2         \* 100 in the loop conditions of correct_dataset.py

\* ------------------------------------------------------- program constants
SEED == 42
TRAIN_FRAC == 70   \* 0.70, in hundredths
DEV_FRAC == 15     \* 0.15, in hundredths
TEST_FRAC == 15    \* 0.15, in hundredths

VARIABLES
  frac,          \* the three fraction constants in effect (hundredths)
  items,         \* the loaded pool (json.load of all.json)
  pc,            \* position of the script
  run,           \* 1 = first execution, 2 = repeated execution on the same pool
  prev,          \* the three lists written by the first execution
  n, id_to_item, all_ids, groups,
  target_train, target_dev, target_test,
  group_alloc,
  split_key, deficit, fracs, i, idx,
  rnd, gi, train_ids, dev_ids, test_ids,
  train_list, dev_list, test_list,
  written,       \* output files on disk
  ver_report,
  \* build_complete_dataset.py and correct_dataset.py
  db,            \* the store: outcome of every SQL text, distinct values per table
  train_data,    \* json.load of train.json
  gpc,           \* position of the generation script
  ti,            \* index of the train.json instance the load loop is at
  valid_by_table, existing_keys,
  tbl,           \* index in table_order of the table being filled
  current, keys, attempts,
  final_data,
  instances, count, template_idx, used_combinations, all_instances,
  corrected_json \* content of the dataset file the script writes

gen_vars == <<db, train_data, gpc, ti, valid_by_table, existing_keys, tbl,
              current, keys, attempts, final_data,
              instances, count, template_idx, used_combinations, all_instances,
              corrected_json>>

split_vars == <<frac, items, pc, run, prev, n, id_to_item, all_ids, groups,
                target_train, target_dev, target_test, group_alloc,
                split_key, deficit, fracs, i, idx, rnd, gi,
                train_ids, dev_ids, test_ids, train_list, dev_list, test_list,
                written, ver_report>>

vars == <<split_vars, gen_vars>>

\* ---------------------------------------------------------------- helpers
\* A label whose key is absent from the JSON object: it['...'] raises KeyError.
MISSING == "<missing>"

\* Python orders str values lexicographically; the labels in use, ascending.
LabelOrder == <<"", "easy", "hard", "population", "production">>

StrRank(s) == CHOOSE r \in DOMAIN LabelOrder : LabelOrder[r] = s

\* tuple comparison used by sorted(groups.items())
KeyLess(a, b) ==
  \/ StrRank(a[1]) < StrRank(b[1])
  \/ a[1] = b[1] /\ StrRank(a[2]) < StrRank(b[2])

RECURSIVE SumSeq(_)
SumSeq(s) == IF s = <<>> THEN 0 ELSE Head(s) + SumSeq(Tail(s))

Range(s) == {s[j] : j \in DOMAIN s}

Abs(x) == IF x < 0 THEN -x ELSE x

Min(a, b) == IF a < b THEN a ELSE b

\* Python slice s[a:b] for 0 <= a <= b (0-based, end exclusive, clipped to len)
Slice(s, a, b) ==
  LET lo == Min(a, Len(s))
      hi == Min(b, Len(s))
  IN  IF hi <= lo THEN <<>> ELSE [j \in 1..(hi - lo) |-> s[lo + j]]

\* math.floor of a value held in hundredths
Floor(x) == x \div 100

\* int(round(x)) of a value held in hundredths: Python 3 rounds half to even
Round(x) ==
  LET q == x \div 100
      r == x % 100
  IN  IF r > 50 \/ (r = 50 /\ q % 2 = 1) THEN q + 1 ELSE q


\* ------------------------------------------------- the pseudo-random source
\* random.Random(SEED): the generator state after seeding.  The Mersenne
\* Twister of the library is replaced by a small linear congruential
\* generator; what the script relies on is only that the stream is a function
\* of the seed.
\* variant: the generator is seeded differently in every execution
RandomUnseeded(seed) == (seed + run) % 65537

Random(seed) == seed % 65537

NextRnd(s) == (s * 75 + 74) % 65537

Swap(x, a, b) == [x EXCEPT ![a] = x[b], ![b] = x[a]]

\* rnd.shuffle(x): for i in reversed(range(1, len(x))): j = randbelow(i + 1);
\* x[i], x[j] = x[j], x[i].  Returns the shuffled list and the new state.
RECURSIVE ShuffleFrom(_, _, _)
ShuffleFrom(x, s, k) ==
  IF k < 2 THEN [list |-> x, state |-> s]
  ELSE LET s1 == NextRnd(s)
           j == (s1 % k) + 1
       IN  ShuffleFrom(Swap(x, k, j), s1, k - 1)

Shuffle(x, s) == ShuffleFrom(x, s, Len(x))

\* ------------------------------------------------------------ input pools
StratumKeys == << <<"easy", "production">>, <<"hard", "production">>,
                  <<"easy", "population">> >>

\* ids are unique but not ascending in pool order
IdAt(pos) == ((pos * 7) % 19) + 1

PoolOf(ks) ==
  [pos \in 1..Len(ks) |->
     [id |-> IdAt(pos), difficulty_level |-> ks[pos][1], table |-> ks[pos][2]]]

Rep(k, c) == [j \in 1..c |-> k]

\* all items of one stratum, then all of the next, in the order ord
Blocks(sz, ord) ==
  Rep(StratumKeys[ord[1]], sz[ord[1]]) \o Rep(StratumKeys[ord[2]], sz[ord[2]])
    \o Rep(StratumKeys[ord[3]], sz[ord[3]])

\* one item of each non-exhausted stratum in turn
RECURSIVE RoundRobin(_, _)
RoundRobin(sz, j) ==
  IF \A k \in DOMAIN sz : sz[k] = 0 THEN <<>>
  ELSE LET nxt == (j % 3) + 1
       IN  IF sz[j] > 0
             THEN <<StratumKeys[j]>> \o RoundRobin([sz EXCEPT ![j] = sz[j] - 1], nxt)
             ELSE RoundRobin(sz, nxt)

BlockOrders == { <<1, 2, 3>>, <<3, 2, 1>>, <<2, 3, 1>> }

\* stratum sizes of two pools outside the enumeration: ten items as 7 of
\* (easy, production) and 3 of (hard, production); ten items as 2, 2 and 6
ScenarioSizes == { <<7, 3, 0>>, <<2, 2, 6>> }

KeySeqs ==
  { Blocks(sz, ord) : sz \in [1..3 -> 0..MaxGroup] \cup ScenarioSizes, ord \in BlockOrders }
    \cup { RoundRobin(sz, 1) : sz \in [1..3 -> 0..MaxGroup] \cup ScenarioSizes }
    \cup UNION { [1..len -> Range(StratumKeys)] : len \in 0..MaxLen }

Pools == { PoolOf(ks) : ks \in KeySeqs }

\* pools in which a label may be the empty string or absent
BadKeys == Range(StratumKeys) \cup
  { <<"", "production">>, <<MISSING, "production">>,
    <<"easy", "">>, <<"easy", MISSING>> }

BadPools == { PoolOf(ks) : ks \in UNION { [1..len -> BadKeys] : len \in 0..MaxBadLen } }

\* pools of items with valid labels in which an id may occur more than once
DupPools ==
  UNION { { [pos \in 1..len |-> [id |-> ids[pos], difficulty_level |-> ks[pos][1],
                                 table |-> ks[pos][2]]] :
              ks \in [1..len -> Range(StratumKeys)], ids \in [1..len -> 1..len] } :
          len \in 0..MaxDupLen }

DefaultFrac == [train |-> TRAIN_FRAC, dev |-> DEV_FRAC, test |-> TEST_FRAC]

\* edited fraction constants: the shipped triple, a triple that sums to more
\* than 1, a degenerate triple that sums to 1 and the triple 0.75/0.15/0.10
FracConfigs ==
  { DefaultFrac,
    [train |-> 70, dev |-> 50, test |-> 15],
    [train |-> 50, dev |-> 50, test |-> 0],
    [train |-> 75, dev |-> 15, test |-> 10] }

FracSumIsOne(f) == f.train + f.dev + f.test = 100

NoReport == [total |-> -1]

\* the script before its first statement, on pool p with fractions f
Fresh(p, f, r, pv) ==
  /\ frac = f
  /\ items = p
  /\ pc = "load"
  /\ run = r
  /\ prev = pv
  /\ n = 0 /\ id_to_item = <<>> /\ all_ids = <<>> /\ groups = <<>>
  /\ target_train = 0 /\ target_dev = 0 /\ target_test = 0
  /\ group_alloc = <<>>
  /\ split_key = "train" /\ deficit = 0 /\ fracs = <<>> /\ i = 0 /\ idx = 0
  /\ rnd = 0 /\ gi = 0
  /\ train_ids = <<>> /\ dev_ids = <<>> /\ test_ids = <<>>
  /\ train_list = <<>> /\ dev_list = <<>> /\ test_list = <<>>
  /\ written = {}
  /\ ver_report = NoReport

NoStore == [result |-> <<>>, values |-> <<>>]

\* the generation scripts are not running
GenIdle ==
  /\ db = NoStore /\ train_data = <<>> /\ gpc = "idle" /\ ti = 0
  /\ valid_by_table = <<>> /\ existing_keys = {} /\ tbl = 0
  /\ current = <<>> /\ keys = {} /\ attempts = 0 /\ final_data = <<>>
  /\ instances = <<>> /\ count = 0 /\ template_idx = 0
  /\ used_combinations = {} /\ all_instances = <<>>
  /\ corrected_json = <<>>

Init == GenIdle /\ \E p \in Pools : Fresh(p, DefaultFrac, 1, <<>>)

InitCfg == GenIdle /\ \E p \in Pools, f \in FracConfigs : Fresh(p, f, 1, <<>>)

InitDup == GenIdle /\ \E p \in DupPools : Fresh(p, DefaultFrac, 1, <<>>)

InitData == GenIdle /\ \E p \in BadPools : Fresh(p, DefaultFrac, 1, <<>>)


\* ------------------------------------------------------ lines 25-33: load
HasMissingLabel(p) ==
  \E j \in DOMAIN p : p[j].difficulty_level = MISSING \/ p[j].table = MISSING

\* {it['id']: it for it in items}: a later item replaces an earlier one
IdToItem(p) ==
  [d \in {p[j].id : j \in DOMAIN p} |->
     p[CHOOSE j \in DOMAIN p : p[j].id = d /\ \A m \in DOMAIN p : p[m].id = d => m <= j]]

KeyOf(it) == <<it.difficulty_level, it.table>>

HasKey(gs, k) == \E j \in DOMAIN gs : gs[j].key = k

KeyIndex(gs, k) == CHOOSE j \in DOMAIN gs : gs[j].key = k

\* groups[key].append(id): a dict in insertion order, as a sequence of entries
RECURSIVE GroupFrom(_, _, _)
GroupFrom(p, j, gs) ==
  IF j > Len(p) THEN gs
  ELSE LET k == KeyOf(p[j])
       IN  IF HasKey(gs, k)
             THEN GroupFrom(p, j + 1,
                    [gs EXCEPT ![KeyIndex(gs, k)].ids = Append(@, p[j].id)])
             ELSE GroupFrom(p, j + 1, Append(gs, [key |-> k, ids |-> <<p[j].id>>]))

Groups(p) == GroupFrom(p, 1, <<>>)

Load ==
  /\ pc = "load"
  /\ n' = Len(items)
  /\ id_to_item' = IdToItem(items)
  /\ all_ids' = [j \in DOMAIN items |-> items[j].id]
  /\ IF HasMissingLabel(items)
       THEN /\ pc' = "KeyError"
            /\ groups' = groups
       ELSE /\ pc' = "targets"
            /\ groups' = Groups(items)
  /\ UNCHANGED <<gen_vars, frac, items, run, prev, target_train, target_dev, target_test,
                 group_alloc, split_key, deficit, fracs, i, idx, rnd, gi,
                 train_ids, dev_ids, test_ids, train_list, dev_list, test_list,
                 written, ver_report>>

\* --------------------------------------------------- lines 35-37: targets
\* variant: int() truncation in place of round()
TargetTrainTruncated(cnt, f) == Floor(cnt * f.train)

TargetTrain(cnt, f) == Round(cnt * f.train)

\* variant: a dev target forced to at least one item
TargetDevAtLeastOne(cnt, f) == IF Round(cnt * f.dev) < 1 THEN 1 ELSE Round(cnt * f.dev)

\* variant: the dev target is rounded up
TargetDevCeiling(cnt, f) == (cnt * f.dev + 99) \div 100

TargetDev(cnt, f) == Round(cnt * f.dev)

TargetTest(cnt, f) == cnt - TargetTrain(cnt, f) - TargetDev(cnt, f)

Targets ==
  /\ pc = "targets"
  /\ target_train' = TargetTrain(n, frac)
  /\ target_dev' = TargetDev(n, frac)
  /\ target_test' = TargetTest(n, frac)
  /\ pc' = "group_alloc"
  /\ UNCHANGED <<gen_vars, frac, items, run, prev, n, id_to_item, all_ids, groups,
                 group_alloc, split_key, deficit, fracs, i, idx, rnd, gi,
                 train_ids, dev_ids, test_ids, train_list, dev_list, test_list,
                 written, ver_report>>

\* ------------------------------------------- lines 39-54: floor allocation
\* variant: the ideal dev share is computed from the train fraction
FloorAllocCopyPaste(k, g, f) ==
  LET ideal_train == g * f.train
      ideal_dev == g * f.train
      f_train == Floor(ideal_train)
      f_dev == Floor(ideal_dev)
      f_test == g - f_train - f_dev
  IN  [key |-> k, size |-> g, ideal_train |-> ideal_train, ideal_dev |-> ideal_dev,
       train |-> f_train, dev |-> f_dev, test |-> f_test]

\* variant: the train count starts from the rounded ideal share
FloorAllocRounded(k, g, f) ==
  LET ideal_train == g * f.train
      ideal_dev == g * f.dev
      f_train == Round(ideal_train)
      f_dev == Floor(ideal_dev)
      f_test == g - f_train - f_dev
  IN  [key |-> k, size |-> g, ideal_train |-> ideal_train, ideal_dev |-> ideal_dev,
       train |-> f_train, dev |-> f_dev, test |-> f_test]

\* variant: the dev count starts from the share rounded up
FloorAllocDevCeiling(k, g, f) ==
  LET ideal_train == g * f.train
      ideal_dev == g * f.dev
      f_train == Floor(ideal_train)
      f_dev == (ideal_dev + 99) \div 100
      f_test == g - f_train - f_dev
  IN  [key |-> k, size |-> g, ideal_train |-> ideal_train, ideal_dev |-> ideal_dev,
       train |-> f_train, dev |-> f_dev, test |-> f_test]

FloorAlloc(k, g, f) ==
  LET ideal_train == g * f.train
      ideal_dev == g * f.dev
      f_train == Floor(ideal_train)
      f_dev == Floor(ideal_dev)
      f_test == g - f_train - f_dev
  IN  [key |-> k, size |-> g, ideal_train |-> ideal_train, ideal_dev |-> ideal_dev,
       train |-> f_train, dev |-> f_dev, test |-> f_test]

InitAlloc ==
  /\ pc = "group_alloc"
  /\ group_alloc' =
       [j \in DOMAIN groups |-> FloorAlloc(groups[j].key, Len(groups[j].ids), frac)]
  /\ pc' = "adjust_train"
  /\ UNCHANGED <<gen_vars, frac, items, run, prev, n, id_to_item, all_ids, groups,
                 target_train, target_dev, target_test,
                 split_key, deficit, fracs, i, idx, rnd, gi,
                 train_ids, dev_ids, test_ids, train_list, dev_list, test_list,
                 written, ver_report>>


\* ---------------------------------------- lines 56-84: adjust_for_target
Ideal(v, sk) == IF sk = "train" THEN v.ideal_train ELSE v.ideal_dev

\* variant: the capacity leaves out the units already given to train
CapacityIgnoringTrain(v) == v.size - v.dev

\* v['size'] - v['train'] - v['dev']
Capacity(v) == v.size - v.train - v.dev

\* sum(v[split_key] for v in group_alloc.values())
SumField(ga, sk) == SumSeq([j \in DOMAIN ga |-> ga[j][sk]])

\* variant: strata are ranked by their ideal share, not by its remainder
FracOfIdeal(v, sk) == Ideal(v, sk)

\* line 63: ideal minus current count, in hundredths
FracOf(v, sk) == Ideal(v, sk) - 100 * v[sk]

\* lines 61-65: one (frac, k, capacity) entry per stratum, in dict order
FracEntries(ga, sk) ==
  [j \in DOMAIN ga |-> [frac |-> FracOf(ga[j], sk), k |-> ga[j].key,
                        capacity |-> Capacity(ga[j])]]

\* variant: the entries are sorted by ascending remainder
RECURSIVE InsertDescAscending(_, _)
InsertDescAscending(sorted, e) ==
  IF sorted = <<>> THEN <<e>>
  ELSE IF Head(sorted).frac <= e.frac
         THEN <<Head(sorted)>> \o InsertDescAscending(Tail(sorted), e)
         ELSE <<e>> \o sorted

\* variant: an entry goes in front of the entries with an equal remainder
RECURSIVE InsertDescUnstable(_, _)
InsertDescUnstable(sorted, e) ==
  IF sorted = <<>> THEN <<e>>
  ELSE IF Head(sorted).frac > e.frac
         THEN <<Head(sorted)>> \o InsertDescUnstable(Tail(sorted), e)
         ELSE <<e>> \o sorted

\* list.sort(key=..., reverse=True) is stable: entries with equal keys keep
\* their order.  e goes behind every entry whose frac is >= its own.
RECURSIVE InsertDesc(_, _)
InsertDesc(sorted, e) ==
  IF sorted = <<>> THEN <<e>>
  ELSE IF Head(sorted).frac >= e.frac
         THEN <<Head(sorted)>> \o InsertDesc(Tail(sorted), e)
         ELSE <<e>> \o sorted

RECURSIVE SortDescFrom(_, _, _)
SortDescFrom(s, j, acc) ==
  IF j > Len(s) THEN acc ELSE SortDescFrom(s, j + 1, InsertDesc(acc, s[j]))

SortDesc(s) == SortDescFrom(s, 1, <<>>)

\* variant: the unit is added and the test count is left as it was
IncrementStaleTest(ga, j, sk) == [ga EXCEPT ![j][sk] = @ + 1]

\* lines 71-72 and 81-82: one more unit of split_key, test recomputed
Increment(ga, j, sk) ==
  LET v == [ga[j] EXCEPT ![sk] = @ + 1]
  IN  [ga EXCEPT ![j] = [v EXCEPT !.test = v.size - v.train - v.dev]]

\* variant: the comparison of line 80 is reversed
FallbackAdmitsReversed(v, sk) == v[sk] > v.size

\* line 80: the stratum may take one more unit in the round-robin pass
FallbackAdmits(v, sk) == v[sk] < v.size

AfterAdjust(sk) == IF sk = "train" THEN "adjust_dev" ELSE "reconcile"

\* variant: the ranked walk stops one entry short
LoopPcShortWalk(d, pos, len, at, sk) ==
  IF at = "walk" /\ d > 0 /\ pos < len - 1 THEN "walk"
  ELSE IF d > 0 THEN "fallback"
  ELSE AfterAdjust(sk)

\* where the script stands once the loop conditions of lines 68, 75 and 78
\* have been evaluated
LoopPc(d, pos, len, at, sk) ==
  IF at = "walk" /\ d > 0 /\ pos < len THEN "walk"
  ELSE IF d > 0 THEN "fallback"
  ELSE AfterAdjust(sk)

\* lines 57-67
AdjustStart ==
  /\ pc \in {"adjust_train", "adjust_dev"}
  /\ LET sk == IF pc = "adjust_train" THEN "train" ELSE "dev"
         target_total == IF sk = "train" THEN target_train ELSE target_dev
         d == target_total - SumField(group_alloc, sk)
     IN  /\ split_key' = sk
         /\ deficit' = d
         /\ IF d = 0
              THEN /\ fracs' = <<>>
                   /\ pc' = AfterAdjust(sk)
              ELSE /\ fracs' = SortDesc(FracEntries(group_alloc, sk))
                   /\ pc' = LoopPc(d, 0, Len(group_alloc), "walk", sk)
  /\ i' = 0
  /\ idx' = 0
  /\ UNCHANGED <<gen_vars, frac, items, run, prev, n, id_to_item, all_ids, groups,
                 target_train, target_dev, target_test, group_alloc, rnd, gi,
                 train_ids, dev_ids, test_ids, train_list, dev_list, test_list,
                 written, ver_report>>

\* lines 68-74 (one iteration of the ranked walk) and lines 78-84 (one
\* iteration of the round-robin fallback)
AdjustLoop ==
  /\ pc \in {"walk", "fallback"}
  /\ IF pc = "walk"
       THEN LET e == fracs[i + 1]
                j == KeyIndex(group_alloc, e.k)
                hit == e.capacity > 0
                d == IF hit THEN deficit - 1 ELSE deficit
            IN  /\ group_alloc' = IF hit THEN Increment(group_alloc, j, split_key)
                                         ELSE group_alloc
                /\ deficit' = d
                /\ i' = i + 1
                /\ idx' = idx
                /\ pc' = LoopPc(d, i + 1, Len(fracs), "walk", split_key)
       ELSE IF Len(group_alloc) = 0
         THEN /\ pc' = "ZeroDivisionError"
              /\ UNCHANGED <<group_alloc, deficit, i, idx>>
         ELSE LET j == (idx % Len(group_alloc)) + 1
                  hit == FallbackAdmits(group_alloc[j], split_key)
                  d == IF hit THEN deficit - 1 ELSE deficit
              IN  /\ group_alloc' = IF hit THEN Increment(group_alloc, j, split_key)
                                           ELSE group_alloc
                  /\ deficit' = d
                  /\ i' = i
                  /\ idx' = (idx + 1) % Len(group_alloc)
                  /\ pc' = LoopPc(d, i, Len(fracs), "fallback", split_key)
  /\ UNCHANGED <<gen_vars, frac, items, run, prev, n, id_to_item, all_ids, groups,
                 target_train, target_dev, target_test, split_key, fracs, rnd, gi,
                 train_ids, dev_ids, test_ids, train_list, dev_list, test_list,
                 written, ver_report>>

\* ------------------------------------- lines 89-122: final reconciliation
\* one for-loop of the pass, from the j-th stratum on, with the running diff
RECURSIVE ReconFrom(_, _, _, _, _)
ReconFrom(ga, sk, target, j, diff) ==
  IF j > Len(ga) \/ diff = 0 THEN ga
  ELSE LET v == ga[j]
           can == IF diff > 0 THEN v.test ELSE v[sk]
           change == Min(Abs(diff), can)
       IN  IF change <= 0 THEN ReconFrom(ga, sk, target, j + 1, diff)
           ELSE LET w == [v EXCEPT ![sk] = IF diff > 0 THEN @ + change ELSE @ - change]
                    ga2 == [ga EXCEPT ![j] = [w EXCEPT !.test = w.size - w.train - w.dev]]
                IN  ReconFrom(ga2, sk, target, j + 1, target - SumField(ga2, sk))

ReconPass(ga, sk, sum, target) ==
  IF sum # target THEN ReconFrom(ga, sk, target, 1, target - sum) ELSE ga

Reconcile ==
  /\ pc = "reconcile"
  /\ LET sum_train == SumField(group_alloc, "train")
         sum_dev == SumField(group_alloc, "dev")
         ga1 == ReconPass(group_alloc, "train", sum_train, target_train)
     IN  group_alloc' = ReconPass(ga1, "dev", sum_dev, target_dev)
  /\ pc' = "seed"
  /\ UNCHANGED <<gen_vars, frac, items, run, prev, n, id_to_item, all_ids, groups,
                 target_train, target_dev, target_test,
                 split_key, deficit, fracs, i, idx, rnd, gi,
                 train_ids, dev_ids, test_ids, train_list, dev_list, test_list,
                 written, ver_report>>


\* ----------------------------- lines 124-140: seeded shuffle and slicing
\* line 125-128
SeedRnd ==
  /\ pc = "seed"
  /\ rnd' = Random(SEED)
  /\ train_ids' = <<>>
  /\ dev_ids' = <<>>
  /\ test_ids' = <<>>
  /\ gi' = 0
  /\ pc' = IF Len(groups) = 0 THEN "verify" ELSE "assign"
  /\ UNCHANGED <<gen_vars, frac, items, run, prev, n, id_to_item, all_ids, groups,
                 target_train, target_dev, target_test, group_alloc,
                 split_key, deficit, fracs, i, idx,
                 train_list, dev_list, test_list, written, ver_report>>

\* sorted(groups.items()): ascending by key (keys are distinct)
RECURSIVE InsertAsc(_, _)
InsertAsc(sorted, e) ==
  IF sorted = <<>> THEN <<e>>
  ELSE IF KeyLess(e.key, Head(sorted).key)
         THEN <<e>> \o sorted
         ELSE <<Head(sorted)>> \o InsertAsc(Tail(sorted), e)

RECURSIVE SortedFrom(_, _, _)
SortedFrom(gs, j, acc) ==
  IF j > Len(gs) THEN acc ELSE SortedFrom(gs, j + 1, InsertAsc(acc, gs[j]))

SortedGroups(gs) == SortedFrom(gs, 1, <<>>)

\* lines 135-137: the three contiguous chunks of a shuffled id list
\* variant: the train chunk runs one id into the next chunk
TrainChunkOverlap(ids, tcount, dcount) == Slice(ids, 0, tcount + 1)

TrainChunk(ids, tcount, dcount) == Slice(ids, 0, tcount)

DevChunk(ids, tcount, dcount) == Slice(ids, tcount, tcount + dcount)

TestChunk(ids, tcount, dcount) == Slice(ids, tcount + dcount, Len(ids))

\* lines 129-140, one stratum per step
AssignGroup ==
  /\ pc = "assign"
  /\ LET g == SortedGroups(groups)[gi + 1]
         sh == Shuffle(g.ids, rnd)
         ids_sorted == sh.list
         alloc == group_alloc[KeyIndex(group_alloc, g.key)]
         tcount == alloc.train
         dcount == alloc.dev
     IN  /\ rnd' = sh.state
         /\ train_ids' = train_ids \o TrainChunk(ids_sorted, tcount, dcount)
         /\ dev_ids' = dev_ids \o DevChunk(ids_sorted, tcount, dcount)
         /\ test_ids' = test_ids \o TestChunk(ids_sorted, tcount, dcount)
  /\ gi' = gi + 1
  /\ pc' = IF gi + 1 < Len(groups) THEN "assign" ELSE "verify"
  /\ UNCHANGED <<gen_vars, frac, items, run, prev, n, id_to_item, all_ids, groups,
                 target_train, target_dev, target_test, group_alloc,
                 split_key, deficit, fracs, i, idx,
                 train_list, dev_list, test_list, written, ver_report>>

\* ------------------------------------- lines 142-144: uniqueness assertion
\* variant: the ids are counted as a list, not as a set
AllAssignedAsList == 1..(Len(train_ids) + Len(dev_ids) + Len(test_ids))

\* set(train_ids) | set(dev_ids) | set(test_ids)
AllAssigned == Range(train_ids) \cup Range(dev_ids) \cup Range(test_ids)

Verify ==
  /\ pc = "verify"
  /\ pc' = IF Cardinality(AllAssigned) = n THEN "assemble" ELSE "AssertionError"
  /\ UNCHANGED <<gen_vars, frac, items, run, prev, n, id_to_item, all_ids, groups,
                 target_train, target_dev, target_test, group_alloc,
                 split_key, deficit, fracs, i, idx, rnd, gi,
                 train_ids, dev_ids, test_ids,
                 train_list, dev_list, test_list, written, ver_report>>

\* -------------------------------------- lines 146-149: original order
\* variant: the partition is listed in the shuffled order of its ids
AssembledShuffled(ids, part_ids, table) ==
  [j \in DOMAIN part_ids |-> table[part_ids[j]]]

\* [id_to_item[i] for i in all_ids if i in set(part_ids)]
Assembled(ids, part_ids, table) ==
  LET InPart(d) == d \in Range(part_ids)
      kept == SelectSeq(ids, InPart)
  IN  [j \in DOMAIN kept |-> table[kept[j]]]

Assemble ==
  /\ pc = "assemble"
  /\ train_list' = Assembled(all_ids, train_ids, id_to_item)
  /\ dev_list' = Assembled(all_ids, dev_ids, id_to_item)
  /\ test_list' = Assembled(all_ids, test_ids, id_to_item)
  /\ pc' = "write"
  /\ UNCHANGED <<gen_vars, frac, items, run, prev, n, id_to_item, all_ids, groups,
                 target_train, target_dev, target_test, group_alloc,
                 split_key, deficit, fracs, i, idx, rnd, gi,
                 train_ids, dev_ids, test_ids, written, ver_report>>

\* -------------------------------------------- lines 151-157: the outputs
PartitionFiles == {"train.json", "dev.json", "test.json"}

WriteOutputs ==
  /\ pc = "write"
  /\ written' = written \cup PartitionFiles
  /\ pc' = "report"
  /\ UNCHANGED <<gen_vars, frac, items, run, prev, n, id_to_item, all_ids, groups,
                 target_train, target_dev, target_test, group_alloc,
                 split_key, deficit, fracs, i, idx, rnd, gi,
                 train_ids, dev_ids, test_ids,
                 train_list, dev_list, test_list, ver_report>>

\* ------------------------------------ lines 159-183: verification report
\* variant: every label present is counted once
BreakdownPresence(lst, field) ==
  [lbl \in {lst[j][field] : j \in DOMAIN lst} |-> 1]

\* dict(Counter([it[field] for it in lst]))
Breakdown(lst, field) ==
  [lbl \in {lst[j][field] : j \in DOMAIN lst} |->
     Cardinality({j \in DOMAIN lst : lst[j][field] = lbl})]

VerReport ==
  [total |-> n,
   targets |-> [train |-> target_train, dev |-> target_dev, test |-> target_test],
   actual |-> [train |-> Len(train_list), dev |-> Len(dev_list), test |-> Len(test_list)],
   train_diff |-> Breakdown(train_list, "difficulty_level"),
   dev_diff |-> Breakdown(dev_list, "difficulty_level"),
   test_diff |-> Breakdown(test_list, "difficulty_level"),
   train_tab |-> Breakdown(train_list, "table"),
   dev_tab |-> Breakdown(dev_list, "table"),
   test_tab |-> Breakdown(test_list, "table")]

Report ==
  /\ pc = "report"
  /\ ver_report' = VerReport
  /\ written' = written \cup {"split_verification.json"}
  /\ pc' = "done"
  /\ UNCHANGED <<gen_vars, frac, items, run, prev, n, id_to_item, all_ids, groups,
                 target_train, target_dev, target_test, group_alloc,
                 split_key, deficit, fracs, i, idx, rnd, gi,
                 train_ids, dev_ids, test_ids,
                 train_list, dev_list, test_list>>

\* ------------------------------------------- a second run on the same pool
\* The script is started again on the same all.json, in a clean output
\* directory; the three lists of the first run are kept for comparison.
Rerun ==
  /\ pc = "done"
  /\ run = 1
  /\ run' = 2
  /\ prev' = <<train_list, dev_list, test_list>>
  /\ pc' = "load"
  /\ n' = 0 /\ id_to_item' = <<>> /\ all_ids' = <<>> /\ groups' = <<>>
  /\ target_train' = 0 /\ target_dev' = 0 /\ target_test' = 0
  /\ group_alloc' = <<>>
  /\ split_key' = "train" /\ deficit' = 0 /\ fracs' = <<>> /\ i' = 0 /\ idx' = 0
  /\ rnd' = 0 /\ gi' = 0
  /\ train_ids' = <<>> /\ dev_ids' = <<>> /\ test_ids' = <<>>
  /\ train_list' = <<>> /\ dev_list' = <<>> /\ test_list' = <<>>
  /\ written' = {}
  /\ ver_report' = NoReport
  /\ UNCHANGED <<gen_vars, frac, items>>

Next ==
  \/ Load
  \/ Targets
  \/ InitAlloc
  \/ AdjustStart
  \/ AdjustLoop
  \/ Reconcile
  \/ SeedRnd
  \/ AssignGroup
  \/ Verify
  \/ Assemble
  \/ WriteOutputs
  \/ Report
  \/ Rerun

\* the script as shipped, on pools with valid labels and unique ids
Spec == Init /\ [][Next]_vars

\* the script with its fraction constants edited
SpecCfg == InitCfg /\ [][Next]_vars

\* the script as shipped, on pools whose labels may be empty or absent
SpecData == InitData /\ [][Next]_vars

\* the script as shipped, on pools in which ids may repeat
SpecDup == InitDup /\ [][Next]_vars

\* the script is one sequential process: its next statement is always
\* executed, so a step of adjust_for_target that is enabled is eventually
\* taken
FairSpecCfg ==
  InitCfg /\ [][Next]_vars /\ WF_vars(AdjustStart) /\ WF_vars(AdjustLoop)

\* ============================ generation/validation stage: the two scripts
\* build_complete_dataset.py lines 288, 66-72: the five tables, in order
table_order == <<"production", "population", "food_insecurity",
                 "commodity_prices", "mse_daily">>

\* A text is its content in lower case without surrounding blanks, whether it
\* holds upper-case letters and whether it has surrounding blanks.
Text(c, u, p) == [core |-> c, upper |-> u, pad |-> p]

\* str.strip()
Strip(t) == [t EXCEPT !.pad = FALSE]

\* str.lower()
Lower(t) == [t EXCEPT !.upper = FALSE]

\* lines 52-53
get_instance_key(inst) ==
  <<Lower(Strip(inst.question_en)), Strip(inst.sql_statement)>>

\* Templates with an odd index use the sampled value; the others, like
\* "Which district produced the most {crop}?" for a sampled district, do not.
UsesValue(k) == k % 2 = 1

\* template["q_en"].format(**params) and template["sql"].format(**params)
FormatQuestion(t, k, v) ==
  Text(<<"q", t, k, IF UsesValue(k) THEN v ELSE 0>>, TRUE, FALSE)

FormatSql(t, k, v) ==
  Text(<<"sql", t, k, IF UsesValue(k) THEN v ELSE 0>>, TRUE, FALSE)

\* SQL texts written by hand in train.json
HandSql(h) == Text(<<"sql", "hand", h, 0>>, TRUE, FALSE)

HandQuestion(h) == Text(<<"q", "hand", h, 0>>, TRUE, FALSE)

Outcomes == {"error", "empty", "null", "rows"}

SqlCores ==
  { FormatSql(table_order[t], k, v).core :
      t \in DOMAIN table_order, k \in 1..NumTemplates, v \in 1..MaxValues }
    \cup { HandSql(h).core : h \in 1..2 }

\* Stores.  The first hand-written SQL text is malformed, the others return
\* rows.  Table r holds nv distinct values and its templates' SQL has the
\* outcomes pat; the other tables hold one value and lack a column that all
\* their templates name, so that their SQL fails.
StoreOf(r, pat, nv) ==
  [result |-> [c \in SqlCores |->
                 IF c[2] = "hand" THEN (IF c[3] = 1 THEN "error" ELSE "rows")
                 ELSE IF c[2] = r THEN pat[c[3]]
                 ELSE "error"],
   values |-> [t \in Range(table_order) |-> IF t = r THEN nv ELSE 1]]

\* every template returns rows, or the last template fails in one of three ways
Patterns ==
  { [k \in 1..NumTemplates |-> IF k = NumTemplates THEN o ELSE "rows"] : o \in Outcomes }

Stores ==
  { StoreOf(r, pat, nv) : r \in Range(table_order), pat \in Patterns, nv \in 1..MaxValues }

\* the store in which every template of every table returns rows
FullStore ==
  [result |-> [c \in SqlCores |->
                 IF c[2] = "hand" THEN (IF c[3] = 1 THEN "error" ELSE "rows")
                 ELSE "rows"],
   values |-> [t \in Range(table_order) |-> 1]]

\* instances of train.json: what the first production template yields, the
\* same with other letter case and blanks, the same labelled with another
\* table, and two hand-written instances
TrainInstances ==
  { [question_en |-> FormatQuestion("production", 1, 1),
     sql_statement |-> FormatSql("production", 1, 1), table |-> "production"],
    [question_en |-> Text(FormatQuestion("production", 1, 1).core, FALSE, TRUE),
     sql_statement |-> Text(FormatSql("production", 1, 1).core, TRUE, TRUE),
     table |-> "production"],
    [question_en |-> FormatQuestion("production", 1, 1),
     sql_statement |-> FormatSql("production", 1, 1), table |-> "population"] }
    \cup { [question_en |-> HandQuestion(h), sql_statement |-> HandSql(h),
            table |-> "production"] : h \in 1..2 }

\* more valid production instances than the target
OverfullTrain ==
  [j \in 1..(TARGET_PER_TABLE + 1) |->
     IF j = 1
       THEN [question_en |-> FormatQuestion("production", 1, 1),
             sql_statement |-> FormatSql("production", 1, 1), table |-> "production"]
       ELSE [question_en |-> Text(<<"q", "hand", j, 0>>, j % 2 = 0, FALSE),
             sql_statement |-> HandSql(2), table |-> "production"]]

TrainFiles ==
  UNION { [1..len -> TrainInstances] : len \in 0..MaxTrain } \cup {OverfullTrain}

\* lines 24-29 and correct_dataset.py lines 34-41: blanks around a statement
\* do not change its outcome
execute_sql(sql) == db.result[Strip(sql).core]

\* variant: the exception is swallowed and success is reported
SuccessAlways(out) == TRUE

\* the success flag: False exactly when sqlite3.Error was raised
Success(out) == out # "error"

\* `result` is truthy: at least one row
Truthy(out) == out \in {"null", "rows"}

\* result[0][0] is not None
FirstNotNone(out) == out = "rows"

\* the instance record built at lines 80-87, 122-129 and in every generator
Instance(q, sql, out, t) ==
  [question_en |-> q, sql_statement |-> sql, sql_result |-> out, table |-> t]

\* current[:target_count] and instances[:TARGET_PER_TABLE]
Truncate(lst) == Slice(lst, 0, TARGET_PER_TABLE)

\* ------------------------------------------------ build_complete_dataset.py
\* the script before its first loop, on train.json f and store d
FreshBuild(f, d) ==
  /\ db = d
  /\ train_data = f
  /\ gpc = IF f = <<>> THEN "call" ELSE "load"
  /\ ti = 0
  /\ valid_by_table = [t \in Range(table_order) |-> <<>>]
  /\ existing_keys = {}
  /\ tbl = 1
  /\ current = <<>> /\ keys = {} /\ attempts = 0
  /\ final_data = <<>>
  /\ instances = <<>> /\ count = 0 /\ template_idx = 0
  /\ used_combinations = {} /\ all_instances = <<>>
  /\ corrected_json = <<>>

\* lines 75-89: one iteration of the loop over train_data
LoadTrain ==
  /\ gpc = "load"
  /\ LET inst == train_data[ti + 1]
         out == execute_sql(inst.sql_statement)
         key == get_instance_key(inst)
     IN  IF Success(out) /\ key \notin existing_keys
           THEN /\ valid_by_table' =
                     [valid_by_table EXCEPT ![inst.table] =
                        Append(@, Instance(inst.question_en, inst.sql_statement,
                                           out, inst.table))]
                /\ existing_keys' = existing_keys \cup {key}
           ELSE UNCHANGED <<valid_by_table, existing_keys>>
  /\ ti' = ti + 1
  /\ gpc' = IF ti + 1 < Len(train_data) THEN "load" ELSE "call"
  /\ UNCHANGED <<db, train_data, tbl, current, keys, attempts, final_data,
                 instances, count, template_idx, used_combinations,
                 all_instances, corrected_json>>
  /\ UNCHANGED split_vars

\* variant: the loop condition leaves out the attempt counter
AttemptPcUncounted(cur, att) ==
  IF Len(cur) < TARGET_PER_TABLE THEN "attempt" ELSE "return"

\* line 106: the loop condition of generate_and_add
AttemptPc(cur, att) ==
  IF Len(cur) < TARGET_PER_TABLE /\ att < max_attempts THEN "attempt" ELSE "return"

\* lines 158-162 (and the four other call sites) with lines 101-104
GenerateAndAddCall ==
  /\ gpc = "call"
  /\ LET existing == valid_by_table[table_order[tbl]]
     IN  /\ current' = existing
         /\ keys' = {get_instance_key(existing[j]) : j \in DOMAIN existing}
         /\ attempts' = 0
         /\ gpc' = AttemptPc(existing, 0)
  /\ UNCHANGED <<db, train_data, ti, valid_by_table, existing_keys, tbl, final_data,
                 instances, count, template_idx, used_combinations,
                 all_instances, corrected_json>>
  /\ UNCHANGED split_vars

\* lines 107-133: one iteration; random.choice picks a template and a value.
\* Every shipped template formats with the parameters its table supplies, so
\* the except branch of lines 115-116 is not taken.
Attempt ==
  /\ gpc = "attempt"
  /\ \E k \in 1..NumTemplates, v \in 1..db.values[table_order[tbl]] :
       LET t == table_order[tbl]
           q_en == FormatQuestion(t, k, v)
           sql == FormatSql(t, k, v)
           key == <<Lower(Strip(q_en)), Strip(sql)>>
           out == execute_sql(sql)
           cur == IF key \notin keys /\ Success(out) /\ Truthy(out) /\ FirstNotNone(out)
                    THEN Append(current, Instance(q_en, sql, out, t))
                    ELSE current
       IN  /\ current' = cur
           /\ keys' = IF cur # current THEN keys \cup {key} ELSE keys
           /\ attempts' = attempts + 1
           /\ gpc' = AttemptPc(cur, attempts + 1)
  /\ UNCHANGED <<db, train_data, ti, valid_by_table, existing_keys, tbl, final_data,
                 instances, count, template_idx, used_combinations,
                 all_instances, corrected_json>>
  /\ UNCHANGED split_vars

\* line 135 and the assignment of the call's result
Return ==
  /\ gpc = "return"
  /\ valid_by_table' = [valid_by_table EXCEPT ![table_order[tbl]] = Truncate(current)]
  /\ IF tbl < Len(table_order)
       THEN tbl' = tbl + 1 /\ gpc' = "call"
       ELSE tbl' = tbl /\ gpc' = "combine"
  /\ UNCHANGED <<db, train_data, ti, existing_keys, current, keys, attempts,
                 final_data, instances, count, template_idx, used_combinations,
                 all_instances, corrected_json>>
  /\ UNCHANGED split_vars

\* final_data.extend(valid_by_table[table]) for the tables from the j-th on
RECURSIVE Extend(_, _)
Extend(by_table, j) ==
  IF j > Len(table_order) THEN <<>>
  ELSE by_table[table_order[j]] \o Extend(by_table, j + 1)

\* lines 286-299
Combine ==
  /\ gpc = "combine"
  /\ final_data' = Extend(valid_by_table, 1)
  /\ corrected_json' = Extend(valid_by_table, 1)
  /\ gpc' = "saved"
  /\ UNCHANGED <<db, train_data, ti, valid_by_table, existing_keys, tbl,
                 current, keys, attempts, instances, count, template_idx,
                 used_combinations, all_instances>>
  /\ UNCHANGED split_vars

\* --------------------------------------------------------- correct_dataset.py
\* main() before its first generator call, on store d
FreshCorrect(d) ==
  /\ db = d
  /\ train_data = <<>>
  /\ gpc = "gen_start"
  /\ ti = 0
  /\ valid_by_table = [t \in Range(table_order) |-> <<>>]
  /\ existing_keys = {}
  /\ tbl = 1
  /\ current = <<>> /\ keys = {} /\ attempts = 0
  /\ final_data = <<>>
  /\ instances = <<>> /\ count = 0 /\ template_idx = 0
  /\ used_combinations = {} /\ all_instances = <<>>
  /\ corrected_json = <<>>

\* generate_production_instances keeps no used_combinations
Dedups(t) == t # "production"

\* lines 244, 384, 521, 669 and 833: the condition under which a generator
\* keeps a candidate, given the outcome of its SQL
Accepts(t, out) ==
  IF t \in {"production", "food_insecurity"}
    THEN Success(out) /\ Truthy(out)
    ELSE Success(out) /\ Truthy(out) /\ FirstNotNone(out)

\* lines 232 and 256-257 for production; lines 367, 505, 644 and 809 for the
\* other generators
GenLoopPc(t, cnt, tidx) ==
  IF t = "production"
    THEN IF tidx > NumTemplates * db.values[t] THEN "gen_return"
         ELSE IF cnt < TARGET_PER_TABLE THEN "gen_loop" ELSE "gen_return"
    ELSE IF cnt < TARGET_PER_TABLE /\ tidx < NumTemplates * MaxRounds
           THEN "gen_loop" ELSE "gen_return"

\* the statements of a generator before its loop (lines 229-230, 363-365, ...)
GenStart ==
  /\ gpc = "gen_start"
  /\ instances' = <<>>
  /\ count' = 0
  /\ template_idx' = 0
  /\ used_combinations' = {}
  /\ gpc' = IF 0 < TARGET_PER_TABLE THEN "gen_loop" ELSE "gen_return"
  /\ UNCHANGED <<db, train_data, ti, valid_by_table, existing_keys, tbl,
                 current, keys, attempts, final_data, all_instances, corrected_json>>
  /\ UNCHANGED split_vars

\* one iteration of a generator's loop (lines 233-257, 368-395, 506-532,
\* 645-680, 810-844): the template is taken in turn, the value at random
GenLoop ==
  /\ gpc = "gen_loop"
  /\ \E v \in 1..db.values[table_order[tbl]] :
       LET t == table_order[tbl]
           k == (template_idx % NumTemplates) + 1
           combo_key == <<k, v>>
           question_en == FormatQuestion(t, k, v)
           sql == FormatSql(t, k, v)
           out == execute_sql(sql)
       IN  IF Dedups(t) /\ combo_key \in used_combinations
             THEN /\ UNCHANGED <<instances, count, used_combinations>>
                  /\ template_idx' = template_idx + 1
                  /\ gpc' = GenLoopPc(t, count, template_idx + 1)
             ELSE /\ used_combinations' =
                       IF Dedups(t) THEN used_combinations \cup {combo_key}
                       ELSE used_combinations
                  /\ instances' = IF Accepts(t, out)
                                    THEN Append(instances, Instance(question_en, sql, out, t))
                                    ELSE instances
                  /\ count' = IF Accepts(t, out) THEN count + 1 ELSE count
                  /\ template_idx' = template_idx + 1
                  /\ gpc' = GenLoopPc(t, IF Accepts(t, out) THEN count + 1 ELSE count,
                                      template_idx + 1)
  /\ UNCHANGED <<db, train_data, ti, valid_by_table, existing_keys, tbl,
                 current, keys, attempts, final_data, all_instances, corrected_json>>
  /\ UNCHANGED split_vars

\* return instances[:TARGET_PER_TABLE] and all_instances.extend(...) in main
GenReturn ==
  /\ gpc = "gen_return"
  /\ all_instances' = all_instances \o Truncate(instances)
  /\ IF tbl < Len(table_order)
       THEN tbl' = tbl + 1 /\ gpc' = "gen_start"
       ELSE tbl' = tbl /\ gpc' = "save"
  /\ UNCHANGED <<db, train_data, ti, valid_by_table, existing_keys,
                 current, keys, attempts, final_data,
                 instances, count, template_idx, used_combinations, corrected_json>>
  /\ UNCHANGED split_vars

\* lines 889-891 of main
SaveCorrected ==
  /\ gpc = "save"
  /\ corrected_json' = all_instances
  /\ gpc' = "done"
  /\ UNCHANGED <<db, train_data, ti, valid_by_table, existing_keys, tbl,
                 current, keys, attempts, final_data,
                 instances, count, template_idx, used_combinations, all_instances>>
  /\ UNCHANGED split_vars

\* create_splits.py is not running
SplitIdle ==
  /\ frac = DefaultFrac /\ items = <<>> /\ pc = "idle" /\ run = 1 /\ prev = <<>>
  /\ n = 0 /\ id_to_item = <<>> /\ all_ids = <<>> /\ groups = <<>>
  /\ target_train = 0 /\ target_dev = 0 /\ target_test = 0
  /\ group_alloc = <<>>
  /\ split_key = "train" /\ deficit = 0 /\ fracs = <<>> /\ i = 0 /\ idx = 0
  /\ rnd = 0 /\ gi = 0
  /\ train_ids = <<>> /\ dev_ids = <<>> /\ test_ids = <<>>
  /\ train_list = <<>> /\ dev_list = <<>> /\ test_list = <<>>
  /\ written = {}
  /\ ver_report = NoReport

InitGen ==
  /\ SplitIdle
  /\ \/ \E f \in TrainFiles, r \in Range(table_order), pat \in Patterns :
          FreshBuild(f, StoreOf(r, pat, 1))
     \/ \E d \in Stores \cup {FullStore} : FreshCorrect(d)

NextGen ==
  \/ LoadTrain
  \/ GenerateAndAddCall
  \/ Attempt
  \/ Return
  \/ Combine
  \/ GenStart
  \/ GenLoop
  \/ GenReturn
  \/ SaveCorrected

\* either generation script, on a train.json and a store
SpecGen == InitGen /\ [][NextGen]_vars


\* ================================================================ claims
IdsOf(lst) == {lst[j].id : j \in DOMAIN lst}

PoolIds == {items[j].id : j \in DOMAIN items}

\* position of an id in the input pool
PosOf(d) == CHOOSE j \in DOMAIN items : items[j].id = d

ErrorPcs == {"KeyError", "AssertionError", "ZeroDivisionError"}

\* C1: when a run of create_splits has completed, the id sets of the train,
\* dev and test outputs are pairwise disjoint, their union is the set of ids
\* of the pool, and the three sizes add up to n.
C1_ExactPartition ==
  pc = "done" =>
    /\ IdsOf(train_list) \cap IdsOf(dev_list) = {}
    /\ IdsOf(train_list) \cap IdsOf(test_list) = {}
    /\ IdsOf(dev_list) \cap IdsOf(test_list) = {}
    /\ IdsOf(train_list) \cup IdsOf(dev_list) \cup IdsOf(test_list) = PoolIds
    /\ Len(train_list) + Len(dev_list) + Len(test_list) = Len(items)
    /\ n = Len(items)

C1_Witness ==
  /\ pc = "done"
  /\ Len(items) >= 3
  /\ Len(groups) >= 2
  /\ train_list # <<>> /\ dev_list # <<>> /\ test_list # <<>>

InPoolOrder(lst) ==
  \A a, b \in DOMAIN lst : a < b => PosOf(lst[a].id) < PosOf(lst[b].id)

\* C4: in each written partition the items stand in the same relative order
\* as in the input pool, whatever the shuffled order was.
C4_OrderPreserved ==
  pc \in {"write", "report", "done"} =>
    InPoolOrder(train_list) /\ InPoolOrder(dev_list) /\ InPoolOrder(test_list)

\* the shuffle put two train ids of the pool in the opposite order
C4_Witness ==
  /\ pc = "done"
  /\ \E a, b \in DOMAIN train_ids :
       a < b /\ PosOf(train_ids[a]) > PosOf(train_ids[b])

EmptyReport ==
  /\ ver_report.total = 0
  /\ ver_report.targets = [train |-> 0, dev |-> 0, test |-> 0]
  /\ ver_report.actual = [train |-> 0, dev |-> 0, test |-> 0]
  /\ DOMAIN ver_report.train_diff = {} /\ DOMAIN ver_report.train_tab = {}
  /\ DOMAIN ver_report.dev_diff = {} /\ DOMAIN ver_report.dev_tab = {}
  /\ DOMAIN ver_report.test_diff = {} /\ DOMAIN ver_report.test_tab = {}

\* C5: on an empty pool the run never raises, and when it has completed the
\* three partitions are empty, all four files are written and the report has
\* total, targets and actual counts zero and empty breakdowns.
C5_EmptyPool ==
  items = <<>> =>
    /\ pc \notin ErrorPcs
    /\ pc = "done" =>
         /\ train_list = <<>> /\ dev_list = <<>> /\ test_list = <<>>
         /\ written = PartitionFiles \cup {"split_verification.json"}
         /\ EmptyReport

C5_Witness == items = <<>> /\ pc = "done" /\ run = 1 /\ ver_report.total = 0

\* C6: when the two deficit-correction passes are over and the final
\* reconciliation has not started, every stratum of size g has a train count
\* of floor(g * 0.70) or floor(g * 0.70) + 1.
C6_TrainFloorOrNext ==
  pc = "reconcile" =>
    \A j \in DOMAIN group_alloc :
      LET g == group_alloc[j].size
          fl == (g * TRAIN_FRAC) \div 100
      IN  group_alloc[j].train \in {fl, fl + 1}

\* some stratum kept its floor although it had a remainder, another got one more
C6_Witness ==
  /\ pc = "reconcile"
  /\ \E j, k \in DOMAIN group_alloc :
       /\ (group_alloc[j].size * TRAIN_FRAC) % 100 # 0
       /\ group_alloc[j].train = (group_alloc[j].size * TRAIN_FRAC) \div 100
       /\ group_alloc[k].train = ((group_alloc[k].size * TRAIN_FRAC) \div 100) + 1

\* distance, in hundredths of an item, between a count and the ideal share
Err(c, g, f) == Abs(100 * c - g * f)

\* C7 as stated: before reconciliation every stratum's train, dev and test
\* counts are each within one item of the ideal share g * fraction.
C7_Original ==
  pc = "reconcile" =>
    \A j \in DOMAIN group_alloc :
      LET v == group_alloc[j]
      IN  /\ Err(v.train, v.size, TRAIN_FRAC) <= 100
          /\ Err(v.dev, v.size, DEV_FRAC) <= 100
          /\ Err(v.test, v.size, TEST_FRAC) <= 100

\* C7 amended: before reconciliation every stratum's train and dev counts are
\* within one item of the ideal share; the test count, which absorbs both
\* remainders, is within two items of its ideal share.
C7_Amended ==
  pc = "reconcile" =>
    \A j \in DOMAIN group_alloc :
      LET v == group_alloc[j]
      IN  /\ Err(v.train, v.size, TRAIN_FRAC) <= 100
          /\ Err(v.dev, v.size, DEV_FRAC) <= 100
          /\ Err(v.test, v.size, TEST_FRAC) < 200

\* a stratum whose test count is more than one item away from g * 0.15
C7_Witness ==
  /\ pc = "reconcile"
  /\ \E j \in DOMAIN group_alloc :
       Err(group_alloc[j].test, group_alloc[j].size, TEST_FRAC) > 100

\* C8: with fractions that do not sum to 1 the run fails before it writes a
\* partition file: for a non-empty pool no partition file is ever written.
C8_InvalidFractionsRejected ==
  (~FracSumIsOne(frac) /\ items # <<>>) => written \cap PartitionFiles = {}

HasBadLabel(p) ==
  \E j \in DOMAIN p :
    \/ p[j].difficulty_level \in {"", MISSING}
    \/ p[j].table \in {"", MISSING}

\* C9: a pool with an item whose difficulty or table label is missing or
\* empty never gets any output written.
C9_BadLabelRejected ==
  HasBadLabel(items) => written = {}

\* C10: with fractions that sum to 1, the partition files are only ever
\* written with train and dev lists whose sizes equal target_train and
\* target_dev; a run whose realized sizes miss a target stops before writing.
C10_NoOffTargetSplit ==
  (FracSumIsOne(frac) /\ written \cap PartitionFiles # {}) =>
    Len(train_list) = target_train /\ Len(dev_list) = target_dev

\* the allocation record of the stratum with key k
AllocOf(k) == group_alloc[KeyIndex(group_alloc, k)]

Counts(v) == <<v.train, v.dev, v.test>>

\* ten items: seven are (easy, production), three are (hard, production)
IsScenarioPool ==
  /\ Len(items) = 10
  /\ Cardinality({j \in DOMAIN items : KeyOf(items[j]) = StratumKeys[1]}) = 7
  /\ Cardinality({j \in DOMAIN items : KeyOf(items[j]) = StratumKeys[2]}) = 3

\* C14: on ten items, seven (easy, production) and three (hard, production),
\* the targets are 7/2/1, the floor allocation is (4, 1, 2) and (2, 0, 1), the
\* train pass gives its one extra unit to (easy, production), the stratum with
\* the largest train remainder, and the dev pass gives its one extra unit to
\* (hard, production), the stratum with the largest dev remainder among those
\* with spare capacity.
C14_TenItemScenario ==
  IsScenarioPool =>
    /\ pc \notin {"load", "targets"} =>
         <<target_train, target_dev, target_test>> = <<7, 2, 1>>
    /\ pc = "adjust_train" =>
         /\ Counts(AllocOf(StratumKeys[1])) = <<4, 1, 2>>
         /\ Counts(AllocOf(StratumKeys[2])) = <<2, 0, 1>>
    /\ pc = "adjust_dev" =>
         /\ Counts(AllocOf(StratumKeys[1])) = <<5, 1, 1>>
         /\ Counts(AllocOf(StratumKeys[2])) = <<2, 0, 1>>
    /\ pc \in {"reconcile", "seed", "assign", "verify", "assemble",
               "write", "report", "done"} =>
         /\ Counts(AllocOf(StratumKeys[1])) = <<5, 1, 1>>
         /\ Counts(AllocOf(StratumKeys[2])) = <<2, 1, 0>>

\* the dev pass of the scenario is over and gave its unit to (hard, production)
C14_Witness ==
  /\ IsScenarioPool
  /\ pc = "reconcile"
  /\ split_key = "dev"
  /\ Len(fracs) = 2
  /\ fracs[1].k = StratumKeys[2]
  /\ AllocOf(StratumKeys[2]).dev = 1

\* the sum of the counts of one breakdown
RECURSIVE SumCounts(_)
SumCounts(b) ==
  IF DOMAIN b = {} THEN 0
  ELSE LET lbl == CHOOSE l \in DOMAIN b : TRUE
       IN  b[lbl] + SumCounts([l \in DOMAIN b \ {lbl} |-> b[l]])

\* C15: the verification report is a function of the final partitions: its
\* actual sizes are the partitions' lengths and sum to the reported total, the
\* counts of each per-difficulty and per-table breakdown sum to the size of
\* the partition they describe, and building the report changes no partition.
C15_ReportReflectsPartitions ==
  /\ [](pc = "done" =>
          /\ ver_report.actual = [train |-> Len(train_list), dev |-> Len(dev_list),
                                  test |-> Len(test_list)]
          /\ ver_report.actual.train + ver_report.actual.dev
               + ver_report.actual.test = ver_report.total
          /\ SumCounts(ver_report.train_diff) = Len(train_list)
          /\ SumCounts(ver_report.train_tab) = Len(train_list)
          /\ SumCounts(ver_report.dev_diff) = Len(dev_list)
          /\ SumCounts(ver_report.dev_tab) = Len(dev_list)
          /\ SumCounts(ver_report.test_diff) = Len(test_list)
          /\ SumCounts(ver_report.test_tab) = Len(test_list))
  /\ [][pc = "report" => UNCHANGED <<train_list, dev_list, test_list>>]_vars

\* a report on a train partition in which some label occurs more than once
C15_Witness ==
  /\ pc = "done"
  /\ Len(train_list) >= 3
  /\ \E lbl \in DOMAIN ver_report.train_diff : ver_report.train_diff[lbl] >= 2
  /\ Cardinality(DOMAIN ver_report.train_tab) >= 2

\* C16: in every state of the computation, every stratum's train, dev and
\* test counts add up to its size: after the floor allocation, after every
\* increment of the ranked walk and of the round-robin fallback, and after
\* the reconciliation pass.
C16_SumInvariant ==
  \A j \in DOMAIN group_alloc :
    /\ group_alloc[j].size = Len(groups[j].ids)
    /\ group_alloc[j].train + group_alloc[j].dev + group_alloc[j].test
         = group_alloc[j].size

\* the round-robin fallback has given a dev unit to a stratum without spare
\* capacity, and the stratum's test count was recomputed
C16_Witness ==
  /\ pc = "reconcile"
  /\ \E j \in DOMAIN group_alloc :
       /\ group_alloc[j].test < 0
       /\ group_alloc[j].train + group_alloc[j].dev + group_alloc[j].test
            = group_alloc[j].size

\* three positive fractions that sum to one
ValidFractions(f) == FracSumIsOne(f) /\ f.train > 0 /\ f.dev > 0 /\ f.test > 0

\* C17: in every reachable state of the allocation, every stratum's train,
\* dev and test counts lie between 0 and the stratum's size; no correction or
\* reconciliation step drives a test count negative.
C17_BoundsInvariant ==
  ValidFractions(frac) =>
    \A j \in DOMAIN group_alloc :
      /\ 0 <= group_alloc[j].train /\ group_alloc[j].train <= group_alloc[j].size
      /\ 0 <= group_alloc[j].dev /\ group_alloc[j].dev <= group_alloc[j].size
      /\ 0 <= group_alloc[j].test /\ group_alloc[j].test <= group_alloc[j].size

\* C18: whenever the round-robin fallback gives one unit of train or dev to a
\* stratum, that stratum has spare capacity (size - train - dev >= 1) just
\* before the increment.
C18_FallbackRespectsCapacity ==
  [][(pc = "fallback" /\ ValidFractions(frac) /\ group_alloc' # group_alloc) =>
       Capacity(group_alloc[(idx % Len(group_alloc)) + 1]) >= 1]_vars

\* the stratum of entry e has received its extra unit in the current pass
Received(e) == FracOf(AllocOf(e.k), split_key) = e.frac - 100

\* C19: in a deficit-correction pass, the ranked walk hands out the extra
\* units in descending order of remainder: if stratum A has received a unit
\* and stratum B has spare capacity and has received none, the remainder of A
\* is at least the remainder of B.
C19_LargestRemainderFirst ==
  (pc \in {"walk", "adjust_dev", "reconcile"} /\ fracs # <<>>) =>
    \A a, b \in DOMAIN fracs :
      (Received(fracs[a]) /\ ~Received(fracs[b]) /\ fracs[b].capacity > 0) =>
        fracs[a].frac >= fracs[b].frac

\* a pass is over; a stratum with a strictly smaller remainder and spare
\* capacity was passed over
C19_Witness ==
  /\ pc \in {"adjust_dev", "reconcile"}
  /\ fracs # <<>>
  /\ \E a, b \in DOMAIN fracs :
       /\ Received(fracs[a]) /\ ~Received(fracs[b]) /\ fracs[b].capacity > 0
       /\ fracs[a].frac > fracs[b].frac

\* C20: among strata of equal remainder in a deficit-correction pass, the
\* extra units go first to the stratum whose first item comes earliest in the
\* pool (the insertion order of the grouping), not to the stratum whose key
\* is smallest in sorted order.
C20_TieBreakInsertionOrder ==
  (pc \in {"walk", "adjust_dev", "reconcile"} /\ fracs # <<>>) =>
    \A a, b \in DOMAIN fracs :
      ( /\ fracs[a].frac = fracs[b].frac
        /\ fracs[a].capacity > 0
        /\ KeyIndex(groups, fracs[a].k) < KeyIndex(groups, fracs[b].k)
        /\ Received(fracs[b]) ) => Received(fracs[a])

\* a tie was decided for the stratum that is first in the pool and last in
\* sorted key order
C20_Witness ==
  /\ pc \in {"adjust_dev", "reconcile"}
  /\ fracs # <<>>
  /\ \E a, b \in DOMAIN fracs :
       /\ fracs[a].frac = fracs[b].frac
       /\ fracs[b].capacity > 0
       /\ KeyIndex(groups, fracs[a].k) < KeyIndex(groups, fracs[b].k)
       /\ KeyLess(fracs[b].k, fracs[a].k)
       /\ Received(fracs[a]) /\ ~Received(fracs[b])

\* every instance held in a list of validated instances or written to the
\* dataset file
ValidatedPool ==
  UNION { Range(valid_by_table[t]) : t \in DOMAIN valid_by_table }
    \cup Range(current) \cup Range(final_data)
    \cup Range(instances) \cup Range(all_instances)
    \cup Range(corrected_json)

\* C11: a candidate whose SQL raises an execution error against the store
\* never appears in the validated pool, whether it was loaded from train.json
\* or produced from a template, in build_complete_dataset.py and in the
\* generators of correct_dataset.py.
C11_NoErrorInPool ==
  \A inst \in ValidatedPool : execute_sql(inst.sql_statement) # "error"

\* the builder has saved a dataset although train.json held an instance whose
\* SQL fails and a template of every table produces SQL that fails
C11_Witness ==
  /\ gpc = "saved"
  /\ corrected_json # <<>>
  /\ \E j \in DOMAIN train_data : execute_sql(train_data[j].sql_statement) = "error"
  /\ \A t \in Range(table_order) :
       \E k \in 1..NumTemplates : execute_sql(FormatSql(t, k, 1)) = "error"

\* C12: the dataset written by build_complete_dataset.py holds no two
\* instances with the same normalized key, across the five tables and across
\* carried-over and generated instances.
C12_NoDuplicateKeys ==
  gpc = "saved" =>
    \A a, b \in DOMAIN final_data :
      a # b => get_instance_key(final_data[a]) # get_instance_key(final_data[b])

\* the keys of the instances generate_and_add can add for table t
CandidateKeys(t) ==
  { get_instance_key([question_en |-> FormatQuestion(t, k, v),
                      sql_statement |-> FormatSql(t, k, v)]) :
      k \in { m \in 1..NumTemplates : execute_sql(FormatSql(t, m, 1)) = "rows" },
      v \in 1..db.values[t] }

\* table t is full, or holds every instance its templates can yield
Exhausted(t) ==
  \/ Len(valid_by_table[t]) = TARGET_PER_TABLE
  \/ CandidateKeys(t) \subseteq
       { get_instance_key(valid_by_table[t][j]) : j \in DOMAIN valid_by_table[t] }

\* C13: when build_complete_dataset.py finishes, each of the five tables
\* contributes exactly TARGET_PER_TABLE instances to the saved dataset,
\* whatever train.json held and whatever the templates can produce (here:
\* even when no table was cut short by the attempt limit alone).
C13_TargetPerTable ==
  (gpc = "saved" /\ \A t \in Range(table_order) : Exhausted(t)) =>
    /\ \A t \in Range(table_order) : Len(valid_by_table[t]) = TARGET_PER_TABLE
    /\ Len(final_data) = TARGET_PER_TABLE * Len(table_order)

\* ------------------------------------------------------------------ C21
\* the capacity a stratum has when the dev pass starts: what the train pass
\* left of its size, less the floor dev count
DevCapacityAtStart(v) == v.size - v.train - Floor(v.ideal_dev)

InDevPass == split_key = "dev" /\ pc \in {"walk", "fallback", "reconcile"}

\* C21: the dev pass ranks the strata with the capacity left by the train
\* pass (size - train - dev); a stratum whose capacity is 0 when the dev pass
\* starts gets no dev unit in the ranked walk, and no step of the dev pass
\* changes a train count.
C21_TrainFeedsDevCapacity ==
  /\ [](InDevPass =>
         \A j \in DOMAIN fracs :
            LET v == AllocOf(fracs[j].k)
            IN  /\ fracs[j].capacity = DevCapacityAtStart(v)
                /\ DevCapacityAtStart(v) = 0 => v.dev = Floor(v.ideal_dev))
  /\ [][(pc = "adjust_dev" \/ InDevPass) =>
           /\ DOMAIN group_alloc' = DOMAIN group_alloc
           /\ \A j \in DOMAIN group_alloc :
                 group_alloc'[j].train = group_alloc[j].train]_vars

\* the dev walk is over, it gave a unit to a later entry and passed over an
\* earlier one that the train pass had filled
C21_Witness ==
  /\ InDevPass /\ pc = "reconcile"
  /\ \E a, b \in DOMAIN fracs :
        /\ a < b
        /\ DevCapacityAtStart(AllocOf(fracs[a].k)) = 0
        /\ AllocOf(fracs[a].k).train > Floor(AllocOf(fracs[a].k).ideal_train)
        /\ Received(fracs[b])

\* ------------------------------------------------------------------ C22
\* C22: both calls of adjust_for_target terminate, and when a call returns
\* the sum over the strata of the field it corrected equals the global
\* target: train after the first call, dev after the second.
C22_DeficitEventuallySatisfied ==
  /\ (pc = "adjust_train") ~> (pc = "adjust_dev")
  /\ (pc = "adjust_dev") ~> (pc = "reconcile")
  /\ [](pc = "adjust_dev" => SumField(group_alloc, "train") = target_train)
  /\ []((pc = "reconcile" /\ split_key = "dev") =>
          SumField(group_alloc, "dev") = target_dev)

\* the dev call returned after its round-robin pass had handed out a unit
C22_Witness ==
  /\ pc = "reconcile" /\ split_key = "dev" /\ items # <<>>
  /\ idx > 0 /\ deficit = 0
  /\ SumField(group_alloc, "train") = target_train
  /\ SumField(group_alloc, "dev") = target_dev

\* ------------------------------------------------------------------ C23
\* how many ids of the stratum g the list part_ids holds
Placed(g, part_ids) ==
  Cardinality({j \in DOMAIN part_ids : part_ids[j] \in Range(g.ids)})

Sliced == pc \in {"verify", "assemble", "write", "report", "done"}

\* C23: once every stratum is sliced, the number of its ids in train_ids,
\* dev_ids and test_ids equals its final train, dev and test counts (with
\* three positive fractions that sum to 1).
C23_SlicesMatchAllocation ==
  (Sliced /\ ValidFractions(frac)) =>
    \A j \in DOMAIN groups :
       LET v == AllocOf(groups[j].key)
       IN  /\ Placed(groups[j], train_ids) = v.train
           /\ Placed(groups[j], dev_ids) = v.dev
           /\ Placed(groups[j], test_ids) = v.test

\* ------------------------------------------------------------------ C24
\* tr, dv, ts are a valid apportionment of cnt items
Apportions(cnt, tr, dv, ts) ==
  /\ tr \in 0..cnt /\ dv \in 0..cnt /\ ts \in 0..cnt
  /\ tr + dv + ts = cnt

\* C24: with the configured fractions the three global targets are each
\* between 0 and n and sum to n, for the pool of the run once lines 35-37
\* have run and for every pool size up to MaxPool; target_test is never
\* negative.
C24_TargetsApportionPool ==
  /\ pc \notin {"load", "targets", "KeyError"} =>
        /\ Apportions(n, target_train, target_dev, target_test)
        /\ target_test >= 0
  /\ \A m \in 0..MaxPool :
        Apportions(m, TargetTrain(m, frac), TargetDev(m, frac), TargetTest(m, frac))

\* a pool of five items: both products round up and test is left with 0
C24_Witness ==
  /\ pc = "group_alloc" /\ n = 5
  /\ target_train = 4 /\ target_dev = 1 /\ target_test = 0

\* ------------------------------------------------------------------ C25
\* no two instances of lst have the same question and the same SQL text
NoTextDuplicates(lst) ==
  \A a, b \in DOMAIN lst :
     (a # b) => <<lst[a].question_en, lst[a].sql_statement>> #
                <<lst[b].question_en, lst[b].sql_statement>>

\* C25: the list a generator of correct_dataset.py returns holds no two
\* instances with the same question text and the same SQL statement.
C25_NoDuplicateInstances ==
  gpc = "gen_return" => NoTextDuplicates(Truncate(instances))

\* ------------------------------------------------------------------ C26
\* C26: with the configured fractions, when the reconciliation pass is
\* reached the train sum equals target_train and the dev sum equals
\* target_dev, and the pass changes no allocation record.
C26_ReconciliationNoOp ==
  /\ [](pc = "reconcile" =>
         /\ SumField(group_alloc, "train") = target_train
         /\ SumField(group_alloc, "dev") = target_dev)
  /\ [][pc = "reconcile" => group_alloc' = group_alloc]_vars

\* the reconciliation pass is over on a pool in which both calls of
\* adjust_for_target had given out units
C26_Witness ==
  /\ pc = "seed" /\ Len(group_alloc) >= 2
  /\ \E j \in DOMAIN group_alloc :
        group_alloc[j].train > Floor(group_alloc[j].ideal_train)
  /\ \E j \in DOMAIN group_alloc :
        group_alloc[j].dev > Floor(group_alloc[j].ideal_dev)
  /\ SumField(group_alloc, "train") = target_train
  /\ SumField(group_alloc, "dev") = target_dev

\* ------------------------------------------------------------------ C27
HasDuplicateId(p) == \E a, b \in DOMAIN p : a # b /\ p[a].id = p[b].id

\* C27: when two items of the pool share an id, the run never gets past the
\* uniqueness assertion: the assertion fails when it is evaluated, the only
\* place the run stops at is the AssertionError, and no output file is
\* written.
C27_DuplicateIdStopsRun ==
  HasDuplicateId(items) =>
    /\ written = {}
    /\ pc \in {"load", "targets", "group_alloc", "adjust_train", "walk",
                "adjust_dev", "reconcile", "seed", "assign", "verify",
                "AssertionError"}
    /\ pc = "verify" => Cardinality(AllAssigned) < n

\* a run on a pool with a repeated id stopped at the assertion, with all n
\* list entries sliced into the three id lists
C27_Witness ==
  /\ HasDuplicateId(items) /\ pc = "AssertionError"
  /\ Len(train_ids) + Len(dev_ids) + Len(test_ids) = n
  /\ written = {}

\* ------------------------------------------------------------------ C28
\* C28: with three positive fractions that sum to 1, when the train pass
\* starts every stratum has a capacity of at least 1 and the train deficit
\* lies between 0 and the number of strata, and the round-robin fallback is
\* never entered while train is being corrected.
C28_TrainWalkClearsDeficit ==
  ValidFractions(frac) =>
  /\ pc = "adjust_train" =>
        /\ \A j \in DOMAIN group_alloc : Capacity(group_alloc[j]) >= 1
        /\ target_train - SumField(group_alloc, "train") \in 0..Len(group_alloc)
  /\ ~(pc = "fallback" /\ split_key = "train")

\* the train walk has returned after giving a unit to every stratum
C28_Witness ==
  /\ ValidFractions(frac) /\ frac # DefaultFrac
  /\ pc = "adjust_dev" /\ Len(group_alloc) >= 2 /\ deficit = 0
  /\ i = Len(fracs) /\ fracs # <<>>
  /\ \A j \in DOMAIN group_alloc :
        group_alloc[j].train = Floor(group_alloc[j].ideal_train) + 1

\* ------------------------------------------------------------------ C29
\* C29: generate_and_add runs at most max_attempts iterations, each of which
\* (a skipped duplicate included) adds one to attempts, and what it returns
\* has at most target_count instances, each labelled with the table of the
\* call or taken over from the existing list.
C29_GenerateAndAddBounded ==
  /\ [](attempts <= max_attempts)
  /\ [](gpc = "attempt" => attempts < max_attempts)
  /\ [][gpc = "attempt" => (attempts' = attempts + 1 /\ gpc' \in {"attempt", "return"})]_vars
  /\ [](gpc = "return" =>
         LET t == table_order[tbl]
             returned == Truncate(current)
         IN  /\ Len(returned) <= TARGET_PER_TABLE
             /\ \A j \in DOMAIN returned :
                   \/ returned[j].table = t
                   \/ returned[j] \in Range(valid_by_table[t]))

\* a call that used up its attempts: it added an instance, was refused
\* others, and returns fewer than target_count
C29_Witness ==
  /\ gpc = "return" /\ attempts = max_attempts
  /\ Len(current) < TARGET_PER_TABLE
  /\ Len(current) > Len(valid_by_table[table_order[tbl]])
====
